---- MODULE Spec2Model ----
(***************************************************************************)
(* Model of py2ast.py: the recursive serializer ast_to_dict and the        *)
(* command-line program around it.                                         *)
(*                                                                         *)
(* Python objects that have identity (AST nodes, lists, the dicts and      *)
(* lists the serializer builds) live in two heaps: `heap` holds the input, *)
(* `out` holds what ast_to_dict has allocated.  The recursion of           *)
(* ast_to_dict is an explicit stack of frames.                             *)
(***************************************************************************)
EXTENDS Integers, Sequences, FiniteSets, TLC

\* ------------------------------------------------------------------ bounds
MaxObjs == 2
MaxLen == 2
MaxArgv == 3

\* ------------------------------------------------------------------ values
\* A value is a reference to an input object, a reference to an output
\* object, or a scalar carrying its Python type and its value.
Ref(i) == [tag |-> "ref", id |-> i, ty |-> "object", val |-> ""]
OutRef(i) == [tag |-> "out", id |-> i, ty |-> "object", val |-> ""]
Scalar(t, v) == [tag |-> "scalar", id |-> 0, ty |-> t, val |-> v]
None == Scalar("NoneType", "None")

\* Leaf values the parser stores in fields, and one type it never emits.
Scalars ==
  { Scalar("str", "x"), Scalar("int", "1"), Scalar("bool", "True"), None,
    Scalar("float", "1.5"), Scalar("ellipsis", "Ellipsis"),
    Scalar("bytes", "b'x'"), Scalar("tuple", "(1, 2)") }

\* ------------------------------------------------------------------ schema
\* node._fields and node._attributes of the node kinds used here.
PosAttrs == <<"lineno", "col_offset", "end_lineno", "end_col_offset">>
Kinds == {"Module", "Expr", "Constant", "Pass"}
Fields(k) ==
  CASE k = "Module" -> <<"body", "type_ignores">>
    [] k = "Expr" -> <<"value">>
    [] k = "Constant" -> <<"value", "kind">>
    [] OTHER -> <<>>
Attributes(k) == IF k = "Module" THEN <<>> ELSE PosAttrs

Range(s) == {s[i] : i \in DOMAIN s}

\* ------------------------------------------------------------- input heap
NodeObj(k, d) == [tag |-> "node", kind |-> k, attrs |-> d, items |-> <<>>]
ListObj(s) == [tag |-> "list", kind |-> "list", attrs |-> <<>>, items |-> s]

\* isinstance(node, ast.AST) and isinstance(node, list)
IsNode(h, v) == v.tag = "ref" /\ h[v.id].tag = "node"
\* As IsList, had the test been written for another type: no list is seen.
IsListNever(h, v) == FALSE
IsList(h, v) == v.tag = "ref" /\ h[v.id].tag = "list"

\* hasattr(node, name), getattr(node, name), getattr(node, name, default)
HasAttr(o, name) == name \in DOMAIN o.attrs
GetAttr(o, name) == o.attrs[name]
\* As GetAttrDefault, with an empty string in place of the default.
GetAttrDefaultEmpty(o, name, default) ==
  IF HasAttr(o, name) THEN GetAttr(o, name) ELSE Scalar("str", "")
GetAttrDefault(o, name, default) ==
  IF HasAttr(o, name) THEN GetAttr(o, name) ELSE default

\* --------------------------------------------------- inputs of ast_to_dict
\* Values the position attributes hold when they are set on an instance.
AttrVal(name) ==
  Scalar("int", CASE name = "lineno" -> "1"
                  [] name = "col_offset" -> "0"
                  [] name = "end_lineno" -> "1"
                  [] OTHER -> "4")

\* Which declared attributes a node built by hand carries: the start
\* position only, or none.  (Parsed nodes, below, carry all four.)
AttrPatterns(k) ==
  IF Attributes(k) = <<>> THEN {{}}
  ELSE {{"lineno", "col_offset"}, {}}

InstanceDict(fv, P) ==
  [n \in (DOMAIN fv) \cup P |-> IF n \in DOMAIN fv THEN fv[n] ELSE AttrVal(n)]

\* Objects that may sit at address n: they refer to lower addresses only,
\* so every generated heap is finite and acyclic; one object may be
\* referred to from several places.
ChildVals(n) == {Ref(j) : j \in 1..(n - 1)}
FieldVals(n) == ChildVals(n) \cup {Scalar("str", "x")}
ItemVals(n) == ChildVals(n) \cup {Scalar("int", "1")}
GenKinds == {"Module", "Expr", "Pass"}
FieldDicts(k, n) ==
  UNION {[S -> FieldVals(n)] : S \in SUBSET Range(Fields(k))}
GenNodes(n) ==
  UNION {{NodeObj(k, InstanceDict(fv, P)) :
            fv \in FieldDicts(k, n), P \in AttrPatterns(k)} : k \in GenKinds}
SeqsUpTo(S, m) == UNION {[1..l -> S] : l \in 0..m}
GenLists(n) == {ListObj(s) : s \in SeqsUpTo(ItemVals(n), MaxLen)}
GenObjs(n) == GenNodes(n) \cup GenLists(n)

\* The addresses an object refers to.
RefsOf(o) ==
  {v.id : v \in {w \in Range(o.items) \cup Range(o.attrs) : w.tag = "ref"}}

\* Heaps of n objects in which every object is referred to by a later one,
\* so that all of the heap is reachable from the last object, the root.
RECURSIVE GenHeaps(_)
GenHeaps(n) ==
  IF n = 0 THEN {<<>>}
  ELSE {Append(h, o) : h \in GenHeaps(n - 1), o \in GenObjs(n)}
Connected(h) ==
  \A j \in 1..(Len(h) - 1) : \E i \in (j + 1)..Len(h) : j \in RefsOf(h[i])
Inputs ==
  {[heap |-> <<>>, root |-> v] : v \in Scalars}
    \cup UNION {{[heap |-> h, root |-> Ref(n)] :
                   h \in {g \in GenHeaps(n) : Connected(g)}} : n \in 1..MaxObjs}

\* ------------------------------------------------------ the parser's trees
\* ast.parse(source, mode='exec', type_comments=True) for the source texts
\* used here; "(" is not a program and raises SyntaxError.
AllPos == [n \in Range(PosAttrs) |-> AttrVal(n)]
ModuleOf(body, ignores) ==
  NodeObj("Module", [n \in {"body", "type_ignores"} |->
                       IF n = "body" THEN body ELSE ignores])
ExprOf(value) ==
  NodeObj("Expr", [n \in {"value"} \cup Range(PosAttrs) |->
                     IF n = "value" THEN value ELSE AttrVal(n)])
ConstantOf(value) ==
  NodeObj("Constant", [n \in {"value", "kind"} \cup Range(PosAttrs) |->
                         IF n = "value" THEN value
                         ELSE IF n = "kind" THEN None ELSE AttrVal(n)])
ExprStmtTree(value) ==
  [heap |-> <<ConstantOf(value), ExprOf(Ref(1)), ListObj(<<Ref(2)>>),
              ListObj(<<>>), ModuleOf(Ref(3), Ref(4))>>,
   root |-> Ref(5)]
Sources == {"", "pass", "...", "'x'", "("}
SyntaxError == [heap |-> <<>>, root |-> Scalar("exception", "SyntaxError")]
AstParse(source) ==
  CASE source = "" ->
         [heap |-> <<ListObj(<<>>), ListObj(<<>>), ModuleOf(Ref(1), Ref(2))>>,
          root |-> Ref(3)]
    [] source = "pass" ->
         [heap |-> <<NodeObj("Pass", AllPos), ListObj(<<Ref(1)>>),
                     ListObj(<<>>), ModuleOf(Ref(2), Ref(3))>>,
          root |-> Ref(4)]
    [] source = "..." -> ExprStmtTree(Scalar("ellipsis", "Ellipsis"))
    [] source = "'x'" -> ExprStmtTree(Scalar("str", "x"))
    [] OTHER -> SyntaxError

\* What the path argv[1] names: nothing, bytes that are not UTF-8, or a text.
Files == {"<missing>", "<undecodable>"} \cup Sources

\* ------------------------------------------------------------ output heap
DictObj(keys, vals) == [tag |-> "dict", keys |-> keys, vals |-> vals, items |-> <<>>]
OutList(items) == [tag |-> "list", keys |-> <<>>, vals |-> <<>>, items |-> items]

\* result[k] = v on an insertion-ordered dict: a new key goes last, an
\* existing key keeps its place and takes the new value.
SetItem(d, k, v) ==
  DictObj(IF k \in Range(d.keys) THEN d.keys ELSE Append(d.keys, k),
          [n \in (DOMAIN d.vals) \cup {k} |-> IF n = k THEN v ELSE d.vals[n]])
\* As ListAppend, inserting at the front.
ListPrepend(l, v) == OutList(<<v>> \o l.items)
ListAppend(l, v) == OutList(Append(l.items, v))

\* ---------------------------------------------------------- json.dump
\* The encoder yields the text piece by piece and json.dump writes each
\* piece as it comes; a value that is none of dict, list, str, int, float,
\* bool, None makes the encoder raise TypeError at that point.  Pieces are
\* tokens here; the whitespace of indent=2 is left out.
Tok(t, s) == [t |-> t, s |-> s]
RaiseTok == Tok("raise", "TypeError")
EncodeScalar(v) ==
  CASE v.ty = "str" -> <<Tok("string", v.val)>>
    [] v.ty \in {"int", "float"} -> <<Tok("number", v.val)>>
    [] v.ty = "bool" -> <<Tok("literal", IF v.val = "True" THEN "true" ELSE "false")>>
    [] v.ty = "NoneType" -> <<Tok("literal", "null")>>
    [] OTHER -> <<RaiseTok>>
RECURSIVE Encode(_, _)
RECURSIVE EncodeItems(_, _, _)
RECURSIVE EncodePairs(_, _, _)
Encode(o, v) ==
  IF v.tag # "out" THEN EncodeScalar(v)
  ELSE IF o[v.id].tag = "list"
    THEN IF o[v.id].items = <<>> THEN <<Tok("punct", "[]")>>
         ELSE <<Tok("punct", "[")>> \o EncodeItems(o, o[v.id].items, 1)
                \o <<Tok("punct", "]")>>
    ELSE <<Tok("punct", "{")>> \o EncodePairs(o, o[v.id], 1) \o <<Tok("punct", "}")>>
EncodeItems(o, items, i) ==
  IF i > Len(items) THEN <<>>
  ELSE (IF i = 1 THEN <<>> ELSE <<Tok("punct", ",")>>)
         \o Encode(o, items[i]) \o EncodeItems(o, items, i + 1)
EncodePairs(o, d, i) ==
  IF i > Len(d.keys) THEN <<>>
  ELSE (IF i = 1 THEN <<>> ELSE <<Tok("punct", ",")>>)
         \o <<Tok("string", d.keys[i]), Tok("punct", ":")>>
         \o Encode(o, d.vals[d.keys[i]]) \o EncodePairs(o, d, i + 1)
\* The pieces json.dump gets to see: everything up to the first raise.
UpToRaise(s) ==
  LET raises == {i \in DOMAIN s : s[i] = RaiseTok}
  IN IF raises = {} THEN s
     ELSE SubSeq(s, 1, CHOOSE i \in raises : \A j \in raises : i <= j)
Chunks(o, v) == UpToRaise(Encode(o, v))

\* ------------------------------------------------------------------- state
VARIABLES
  mode,     \* "cli": the program is run; "call": ast_to_dict is called
  pc,       \* where the run is
  argc,     \* len(sys.argv)
  file,     \* what argv[1] names
  heap,     \* the input objects
  root,     \* the argument of the outermost ast_to_dict call
  stack,    \* the frames of ast_to_dict, innermost last
  out,      \* the dicts and lists ast_to_dict has built
  result,   \* what the outermost call returned
  ncalls,   \* recursive calls of ast_to_dict made so far
  pending,  \* pieces json.dump has still to write
  stdout,   \* pieces written to standard output
  stderr,   \* what was written to the error stream
  exit      \* exit status, -1 while the process runs

vars == <<mode, pc, argc, file, heap, root, stack, out, result, ncalls,
          pending, stdout, stderr, exit>>

Frame(v) == [arg |-> v, pc |-> "enter", i |-> 1, res |-> 0]
NoResult == Scalar("unset", "")

Init ==
  /\ mode \in {"cli", "call"}
  /\ pc = IF mode = "call" THEN "serialize" ELSE "main"
  /\ argc \in IF mode = "call" THEN {0} ELSE 1..MaxArgv
  /\ file \in IF mode = "call" \/ argc < 2 THEN {"<none>"} ELSE Files
  /\ \E in \in IF mode = "call" THEN Inputs ELSE {[heap |-> <<>>, root |-> NoResult]} :
       heap = in.heap /\ root = in.root
  /\ stack = IF mode = "call" THEN <<Frame(root)>> ELSE <<>>
  /\ out = <<>>
  /\ result = NoResult
  /\ ncalls = 0
  /\ pending = <<>>
  /\ stdout = <<>>
  /\ stderr = <<>>
  /\ exit = -1

\* --------------------------------------------------------------- __main__
UsageLine == <<"Usage:", "python", "argv[0]", "<python_source_file>">>
Traceback(exc) == <<"Traceback", exc>>

\* An uncaught exception: the traceback goes to the error stream, status 1.
Uncaught(exc) ==
  /\ stderr' = Traceback(exc)
  /\ exit' = 1
  /\ pc' = "exit"

\* As Usage, with the print going to standard output.
UsageToStdout ==
  /\ pc = "main" /\ argc # 2
  /\ stdout' = <<[t |-> "string", s |-> "Usage"]>>
  /\ exit' = 1
  /\ pc' = "exit"
  /\ UNCHANGED <<mode, argc, file, heap, root, stack, out, result, ncalls,
                 pending, stderr>>

\* if len(sys.argv) != 2: print usage to stderr, sys.exit(1)
Usage ==
  /\ pc = "main" /\ argc # 2
  /\ stderr' = UsageLine
  /\ exit' = 1
  /\ pc' = "exit"
  /\ UNCHANGED <<mode, argc, file, heap, root, stack, out, result, ncalls,
                 pending, stdout>>

\* with open(argv[1], 'r', encoding='utf-8') as f: source = f.read()
ReadFile ==
  /\ pc = "main" /\ argc = 2 /\ file \in Sources
  /\ pc' = "parse"
  /\ UNCHANGED <<mode, argc, file, heap, root, stack, out, result, ncalls,
                 pending, stdout, stderr, exit>>

ReadFails ==
  /\ pc = "main" /\ argc = 2 /\ file \notin Sources
  /\ Uncaught(IF file = "<missing>" THEN "FileNotFoundError" ELSE "UnicodeDecodeError")
  /\ UNCHANGED <<mode, argc, file, heap, root, stack, out, result, ncalls,
                 pending, stdout>>

\* tree = ast.parse(...); ast_dict = ast_to_dict(tree) is entered
Parse ==
  /\ pc = "parse" /\ AstParse(file) # SyntaxError
  /\ heap' = AstParse(file).heap
  /\ root' = AstParse(file).root
  /\ stack' = <<Frame(AstParse(file).root)>>
  /\ pc' = "serialize"
  /\ UNCHANGED <<mode, argc, file, out, result, ncalls, pending, stdout, stderr, exit>>

ParseFails ==
  /\ pc = "parse" /\ AstParse(file) = SyntaxError
  /\ Uncaught("SyntaxError")
  /\ UNCHANGED <<mode, argc, file, heap, root, stack, out, result, ncalls,
                 pending, stdout>>

\* ------------------------------------------------------------ ast_to_dict
Top == stack[Len(stack)]
Callers == SubSeq(stack, 1, Len(stack) - 1)
Push(v) == Append(stack, Frame(v))

\* As Names, with the two loops in the other order.
NamesAttributesFirst(k) == Attributes(k) \o Fields(k)

\* The names a node frame walks: node._fields, then node._attributes.
Names(k) == Fields(k) \o Attributes(k)

\* The outermost call returns v: to the caller in "call" mode, to
\* json.dump in the program.
Finish(v) ==
  /\ result' = v
  /\ stack' = <<>>
  /\ pc' = IF mode = "cli" THEN "dump" ELSE "returned"
  /\ pending' = IF mode = "cli" THEN Chunks(out, v) ELSE <<>>
  /\ out' = out

\* An inner call returns v: the calling frame stores it, under the name it
\* is at (result[field] = ..., result[attr] = ...) or as the next item of
\* the list it is building, and moves on.
Store(v) ==
  LET c == Callers[Len(Callers)]
      o == out[c.res]
      k == heap[c.arg.id].kind
  IN /\ out' = [out EXCEPT ![c.res] =
                  IF c.pc = "node" THEN SetItem(o, Names(k)[c.i], v)
                  ELSE ListAppend(o, v)]
     /\ stack' = [Callers EXCEPT ![Len(Callers)].i = c.i + 1]
     /\ UNCHANGED <<result, pc, pending>>

Return(v) == IF Callers = <<>> THEN Finish(v) ELSE Store(v)

\* As EnterNode, with the kind stored under 'type'.
EnterNodeTypeKey ==
  /\ pc = "serialize" /\ Top.pc = "enter" /\ IsNode(heap, Top.arg)
  /\ out' = Append(out, DictObj(<<"type">>,
                [n \in {"type"} |-> Scalar("str", heap[Top.arg.id].kind)]))
  /\ stack' = [stack EXCEPT ![Len(stack)] =
                 [@ EXCEPT !.pc = "node", !.res = Len(out) + 1]]
  /\ UNCHANGED <<mode, pc, argc, file, heap, root, result, ncalls, pending,
                 stdout, stderr, exit>>

\* if isinstance(node, ast.AST): result = {'_type': node.__class__.__name__}
EnterNode ==
  /\ pc = "serialize" /\ Top.pc = "enter" /\ IsNode(heap, Top.arg)
  /\ out' = Append(out, DictObj(<<"_type">>,
                [n \in {"_type"} |-> Scalar("str", heap[Top.arg.id].kind)]))
  /\ stack' = [stack EXCEPT ![Len(stack)] =
                 [@ EXCEPT !.pc = "node", !.res = Len(out) + 1]]
  /\ UNCHANGED <<mode, pc, argc, file, heap, root, result, ncalls, pending,
                 stdout, stderr, exit>>

\* for field in node._fields: ... ast_to_dict(getattr(node, field))
CallField ==
  /\ pc = "serialize" /\ Top.pc = "node"
  /\ LET o == heap[Top.arg.id] IN
       /\ Top.i <= Len(Fields(o.kind))
       /\ HasAttr(o, Fields(o.kind)[Top.i])
       /\ stack' = Push(GetAttr(o, Fields(o.kind)[Top.i]))
  /\ ncalls' = ncalls + 1
  /\ UNCHANGED <<mode, pc, argc, file, heap, root, out, result, pending,
                 stdout, stderr, exit>>

\* getattr(node, field) on an instance that does not carry the field
\* raises AttributeError, which nothing catches.
FieldMissing ==
  /\ pc = "serialize" /\ Top.pc = "node"
  /\ LET o == heap[Top.arg.id] IN
       /\ Top.i <= Len(Fields(o.kind))
       /\ ~HasAttr(o, Fields(o.kind)[Top.i])
  /\ IF mode = "cli"
       THEN Uncaught("AttributeError")
       ELSE pc' = "raised" /\ UNCHANGED <<stderr, exit>>
  /\ UNCHANGED <<mode, argc, file, heap, root, stack, out, result, ncalls,
                 pending, stdout>>

\* As CallAttr, storing None for an absent attribute without a call.
CallAttrSkipAbsent ==
  /\ pc = "serialize" /\ Top.pc = "node"
  /\ LET o == heap[Top.arg.id] IN
       /\ Top.i > Len(Fields(o.kind))
       /\ Top.i <= Len(Names(o.kind))
       /\ IF HasAttr(o, Names(o.kind)[Top.i])
            THEN /\ stack' = Push(GetAttr(o, Names(o.kind)[Top.i]))
                 /\ ncalls' = ncalls + 1
                 /\ out' = out
            ELSE /\ out' = [out EXCEPT ![Top.res] = SetItem(@, Names(o.kind)[Top.i], None)]
                 /\ stack' = [stack EXCEPT ![Len(stack)].i = @ + 1]
                 /\ ncalls' = ncalls
  /\ UNCHANGED <<mode, pc, argc, file, heap, root, result, pending,
                 stdout, stderr, exit>>

\* for attr in node._attributes: ... ast_to_dict(getattr(node, attr, None))
CallAttr ==
  /\ pc = "serialize" /\ Top.pc = "node"
  /\ LET o == heap[Top.arg.id] IN
       /\ Top.i > Len(Fields(o.kind))
       /\ Top.i <= Len(Names(o.kind))
       /\ stack' = Push(GetAttrDefault(o, Names(o.kind)[Top.i], None))
  /\ ncalls' = ncalls + 1
  /\ UNCHANGED <<mode, pc, argc, file, heap, root, out, result, pending,
                 stdout, stderr, exit>>

\* return result
ReturnNode ==
  /\ pc = "serialize" /\ Top.pc = "node"
  /\ Top.i > Len(Names(heap[Top.arg.id].kind))
  /\ Return(OutRef(Top.res))
  /\ UNCHANGED <<mode, argc, file, heap, root, ncalls, stdout, stderr, exit>>

\* elif isinstance(node, list): the comprehension starts a new list
EnterList ==
  /\ pc = "serialize" /\ Top.pc = "enter" /\ IsList(heap, Top.arg)
  /\ out' = Append(out, OutList(<<>>))
  /\ stack' = [stack EXCEPT ![Len(stack)] =
                 [@ EXCEPT !.pc = "list", !.res = Len(out) + 1]]
  /\ UNCHANGED <<mode, pc, argc, file, heap, root, result, ncalls, pending,
                 stdout, stderr, exit>>

\* [ast_to_dict(x) for x in node]: the next item
CallItem ==
  /\ pc = "serialize" /\ Top.pc = "list"
  /\ Top.i <= Len(heap[Top.arg.id].items)
  /\ stack' = Push(heap[Top.arg.id].items[Top.i])
  /\ ncalls' = ncalls + 1
  /\ UNCHANGED <<mode, pc, argc, file, heap, root, out, result, pending,
                 stdout, stderr, exit>>

\* the comprehension is exhausted: return the list
ReturnList ==
  /\ pc = "serialize" /\ Top.pc = "list"
  /\ Top.i > Len(heap[Top.arg.id].items)
  /\ Return(OutRef(Top.res))
  /\ UNCHANGED <<mode, argc, file, heap, root, ncalls, stdout, stderr, exit>>

\* As ReturnScalar, returning str(node).
ReturnScalarAsStr ==
  /\ pc = "serialize" /\ Top.pc = "enter"
  /\ ~IsNode(heap, Top.arg) /\ ~IsList(heap, Top.arg)
  /\ Return(Scalar("str", Top.arg.val))
  /\ UNCHANGED <<mode, argc, file, heap, root, ncalls, stdout, stderr, exit>>

\* else: return node
ReturnScalar ==
  /\ pc = "serialize" /\ Top.pc = "enter"
  /\ ~IsNode(heap, Top.arg) /\ ~IsList(heap, Top.arg)
  /\ Return(Top.arg)
  /\ UNCHANGED <<mode, argc, file, heap, root, ncalls, stdout, stderr, exit>>

\* ---------------------------------------------------------------- json.dump
\* fp.write(chunk) for the next piece
DumpWrite ==
  /\ pc = "dump" /\ pending # <<>> /\ Head(pending) # RaiseTok
  /\ stdout' = Append(stdout, Head(pending))
  /\ pending' = Tail(pending)
  /\ UNCHANGED <<mode, pc, argc, file, heap, root, stack, out, result, ncalls,
                 stderr, exit>>

\* the encoder meets a value it cannot encode
DumpRaises ==
  /\ pc = "dump" /\ pending # <<>> /\ Head(pending) = RaiseTok
  /\ Uncaught("TypeError")
  /\ pending' = <<>>
  /\ UNCHANGED <<mode, argc, file, heap, root, stack, out, result, ncalls, stdout>>

\* the program runs off its end
DumpDone ==
  /\ pc = "dump" /\ pending = <<>>
  /\ exit' = 0
  /\ pc' = "exit"
  /\ UNCHANGED <<mode, argc, file, heap, root, stack, out, result, ncalls,
                 pending, stdout, stderr>>

Next ==
  \/ Usage \/ ReadFile \/ ReadFails \/ Parse \/ ParseFails
  \/ EnterNode \/ CallField \/ FieldMissing \/ CallAttr \/ ReturnNode
  \/ EnterList \/ CallItem \/ ReturnList \/ ReturnScalar
  \/ DumpWrite \/ DumpRaises \/ DumpDone

Spec == Init /\ [][Next]_vars
\* The program is one thread that runs until it returns, exits or raises.
FairSpec == Spec /\ WF_vars(Next)

\* ================================================================ properties
\* Reading the two heaps of a state, independently of the serializer's steps.
Returned == result # NoResult
InNode(v) == v.tag = "ref" /\ heap[v.id].tag = "node"
InList(v) == v.tag = "ref" /\ heap[v.id].tag = "list"
InScalar(v) == ~InNode(v) /\ ~InList(v)
OutIsDict(w) == w.tag = "out" /\ w.id \in DOMAIN out /\ out[w.id].tag = "dict"
OutIsList(w) == w.tag = "out" /\ w.id \in DOMAIN out /\ out[w.id].tag = "list"
Present(o, n) == n \in DOMAIN o.attrs
ValueOr(o, n, d) == IF Present(o, n) THEN o.attrs[n] ELSE d
Declared(k) == Range(Fields(k)) \cup Range(Attributes(k))

\* w is serialize applied to v: a dict with `_type`, the fields and the
\* attributes for a node, a list of the same length for a list, the value
\* itself otherwise, and so on below.
RECURSIVE Matches(_, _)
Matches(v, w) ==
  IF InNode(v) THEN
    /\ OutIsDict(w)
    /\ LET o == heap[v.id]
           d == out[w.id]
       IN /\ DOMAIN d.vals = {"_type"} \cup Declared(o.kind)
          /\ d.vals["_type"] = Scalar("str", o.kind)
          /\ \A f \in Range(Fields(o.kind)) :
               Present(o, f) /\ Matches(o.attrs[f], d.vals[f])
          /\ \A a \in Range(Attributes(o.kind)) :
               Matches(ValueOr(o, a, None), d.vals[a])
  ELSE IF InList(v) THEN
    /\ OutIsList(w)
    /\ Len(out[w.id].items) = Len(heap[v.id].items)
    /\ \A i \in DOMAIN heap[v.id].items :
         Matches(heap[v.id].items[i], out[w.id].items[i])
  ELSE w = v

\* The pairs <<input value, output value>> met when input and output are
\* walked together from <<v, w>>, as far as their shapes agree.
RECURSIVE Corr(_, _)
Corr(v, w) ==
  {<<v, w>>} \cup
    IF InNode(v) /\ OutIsDict(w) THEN
      UNION {Corr(ValueOr(heap[v.id], n, None), out[w.id].vals[n]) :
               n \in Declared(heap[v.id].kind) \cap DOMAIN out[w.id].vals}
    ELSE IF InList(v) /\ OutIsList(w) THEN
      UNION {Corr(heap[v.id].items[i], out[w.id].items[i]) :
               i \in (DOMAIN heap[v.id].items) \cap (DOMAIN out[w.id].items)}
    ELSE {}
Pairs == Corr(root, result)

\* C1: whenever serialize has returned, at every node of the input the output
\* holds a mapping whose keys are exactly `_type`, the kind's field names and
\* the kind's attribute names, one entry each; `_type` is the kind's name as a
\* string and the entry under each field name is serialize of the field's value.
C1_NodeBecomesMapping ==
  Returned =>
    \A p \in Pairs :
      InNode(p[1]) =>
        /\ OutIsDict(p[2])
        /\ LET o == heap[p[1].id]
               d == out[p[2].id]
           IN /\ Range(d.keys) = {"_type"} \cup Declared(o.kind)
              /\ DOMAIN d.vals = Range(d.keys)
              /\ Len(d.keys) = 1 + Len(Fields(o.kind)) + Len(Attributes(o.kind))
              /\ d.vals["_type"] = Scalar("str", o.kind)
              /\ \A f \in Range(Fields(o.kind)) :
                   Present(o, f) /\ Matches(o.attrs[f], d.vals[f])
C1_Witness ==
  /\ Returned /\ mode = "call" /\ InNode(root)
  /\ heap[root.id].kind = "Module"
  /\ InNode(heap[root.id].attrs["body"])
  /\ heap[root.id].attrs["type_ignores"] = Scalar("str", "x")

\* C2: whenever serialize has returned, at every list of the input the output
\* holds a list of the same length whose i-th element is serialize of the
\* i-th item; an empty list gives an empty list.
C2_ListBecomesList ==
  Returned =>
    \A p \in Pairs :
      InList(p[1]) =>
        /\ OutIsList(p[2])
        /\ Len(out[p[2].id].items) = Len(heap[p[1].id].items)
        /\ \A i \in DOMAIN heap[p[1].id].items :
             Matches(heap[p[1].id].items[i], out[p[2].id].items[i])
C2_Witness ==
  /\ Returned /\ InList(root)
  /\ Len(heap[root.id].items) = 2
  /\ heap[root.id].items[1] = Scalar("int", "1")
  /\ InNode(heap[root.id].items[2])

\* C3: a value that is neither a node nor a list comes back as it went in,
\* same value and same type, wherever it sits in the input; called on such a
\* value serialize builds nothing and does not raise.
C3_ScalarPassthrough ==
  /\ Returned => \A p \in Pairs : InScalar(p[1]) => p[2] = p[1]
  /\ (mode = "call" /\ InScalar(root)) =>
       /\ pc \in {"serialize", "returned"}
       /\ out = <<>>
       /\ pc = "returned" => result = root
C3_Witness ==
  /\ mode = "call" /\ pc = "returned"
  /\ root = Scalar("tuple", "(1, 2)") /\ result = root

\* C4: in every mapping built for a node the keys come in the order `_type`,
\* then the kind's fields in declared order, then the kind's attributes in
\* declared order; with the entries being those of the input (Matches), the
\* Document, key order included, is determined by the input tree.
C4_KeyOrder ==
  Returned =>
    /\ Matches(root, result)
    /\ \A p \in Pairs :
         (InNode(p[1]) /\ OutIsDict(p[2])) =>
           out[p[2].id].keys =
             <<"_type">> \o Fields(heap[p[1].id].kind) \o Attributes(heap[p[1].id].kind)
C4_Witness ==
  /\ Returned /\ InNode(root) /\ heap[root.id].kind = "Expr"
  /\ OutIsDict(result) /\ Len(out[result.id].keys) = 6

\* C5: run with a number of arguments other than one, the program prints the
\* usage line to the error stream and exits with status 1; it never reads,
\* parses, serializes or writes to standard output.
C5_UsageError ==
  (mode = "cli" /\ argc # 2) =>
    /\ pc \in {"main", "exit"}
    /\ stdout = <<>> /\ pending = <<>>
    /\ heap = <<>> /\ out = <<>> /\ stack = <<>> /\ ncalls = 0 /\ ~Returned
    /\ pc = "exit" =>
         /\ exit = 1
         /\ Len(stderr) >= 3
         /\ stderr[1] = "Usage:"
         /\ stderr[Len(stderr) - 1] = "argv[0]"
         /\ stderr[Len(stderr)] = "<python_source_file>"
C5_Witness == mode = "cli" /\ argc = 3 /\ file = "pass" /\ pc = "exit"

\* C6: every run of the program ends either with the whole Document on
\* standard output, or with nothing on standard output and a failure status.
C6_AllOrNothing ==
  (mode = "cli" /\ pc = "exit") =>
    \/ exit = 0 /\ Returned /\ stdout = Encode(out, result)
    \/ exit # 0 /\ stdout = <<>>

\* The output objects met on a walk of the Document from w, one entry per
\* visit.
RECURSIVE Visits(_)
RECURSIVE VisitsOfItems(_, _)
RECURSIVE VisitsOfKeys(_, _)
Visits(w) ==
  IF OutIsDict(w) THEN <<w.id>> \o VisitsOfKeys(out[w.id], 1)
  ELSE IF OutIsList(w) THEN <<w.id>> \o VisitsOfItems(out[w.id].items, 1)
  ELSE <<>>
VisitsOfItems(items, i) ==
  IF i > Len(items) THEN <<>>
  ELSE Visits(items[i]) \o VisitsOfItems(items, i + 1)
VisitsOfKeys(d, i) ==
  IF i > Len(d.keys) THEN <<>>
  ELSE Visits(d.vals[d.keys[i]]) \o VisitsOfKeys(d, i + 1)
PureTree(w) == Cardinality(Range(Visits(w))) = Len(Visits(w))

\* Same shape: a mapping exactly where the input has a node, a list exactly
\* where it has a list, and the kind, field and attribute names of the node
\* as the mapping's `_type` and keys.
RECURSIVE SameShape(_, _)
SameShape(v, w) ==
  /\ InNode(v) <=> OutIsDict(w)
  /\ InList(v) <=> OutIsList(w)
  /\ InNode(v) =>
       LET o == heap[v.id]
           d == out[w.id]
       IN /\ d.keys = <<"_type">> \o Fields(o.kind) \o Attributes(o.kind)
          /\ DOMAIN d.vals = Range(d.keys)
          /\ d.vals["_type"] = Scalar("str", o.kind)
          /\ \A n \in Declared(o.kind) : SameShape(ValueOr(o, n, None), d.vals[n])
  /\ InList(v) =>
       /\ Len(out[w.id].items) = Len(heap[v.id].items)
       /\ \A i \in DOMAIN heap[v.id].items :
            SameShape(heap[v.id].items[i], out[w.id].items[i])
  /\ InScalar(v) => w.tag = "scalar"

\* C7: the Document serialize returns is a tree, no mapping or list of it is
\* met twice on a walk from its root, and it has the shape of the input.
C7_PureTreeSameShape ==
  Returned => PureTree(result) /\ SameShape(root, result)
C7_Witness ==
  /\ Returned /\ mode = "cli" /\ Len(heap) = 5 /\ Len(out) = 5
  /\ InNode(root) /\ OutIsDict(result)

\* C8: for every node and every attribute declared for its kind, the mapping
\* has an entry under the attribute's name: null when the instance does not
\* carry the attribute, serialize of the attribute's value when it does.
C8_AbsentAttributeIsNull ==
  Returned =>
    \A p \in Pairs :
      (InNode(p[1]) /\ OutIsDict(p[2])) =>
        LET o == heap[p[1].id]
            d == out[p[2].id]
        IN \A a \in Range(Attributes(o.kind)) :
             /\ a \in DOMAIN d.vals
             /\ ~Present(o, a) => d.vals[a] = None
             /\ Present(o, a) => Matches(o.attrs[a], d.vals[a])
C8_Witness ==
  /\ Returned /\ InNode(root) /\ heap[root.id].kind = "Pass"
  /\ Present(heap[root.id], "lineno") /\ ~Present(heap[root.id], "end_lineno")
  /\ OutIsDict(result) /\ out[result.id].vals["end_lineno"] = None

\* C9: serialize never ends in an error, whatever nodes, lists and scalars
\* the input is built from, also when an instance lacks a declared field or
\* attribute.
C9_NeverRaises == mode = "call" => pc \in {"serialize", "returned"}

\* The calls serialize makes below v: one for each field and each attribute
\* of a node, one for each item of a list, and those made below them.
ChildValues(o) ==
  IF o.tag = "node"
    THEN LET ns == Fields(o.kind) \o Attributes(o.kind)
         IN [i \in DOMAIN ns |-> ValueOr(o, ns[i], None)]
    ELSE o.items
CallsBelow[i \in 1..Len(heap)] ==
  LET vs == ChildValues(heap[i])
      sum[j \in 0..Len(vs)] ==
        IF j = 0 THEN 0
        ELSE sum[j - 1] + 1 + (IF vs[j].tag = "ref" THEN CallsBelow[vs[j].id] ELSE 0)
  IN sum[Len(vs)]
Occ(v) == IF v.tag = "ref" THEN CallsBelow[v.id] ELSE 0

Finished == pc \in {"returned", "raised", "exit"}

\* C10: on every finite acyclic input, also one in which an object is
\* referred to from several places, serialize comes to an end, and when it
\* returns it has made exactly one recursive call for each field value, each
\* attribute value and each list item occurrence below the root.
OneCallEach == Returned => ncalls = Occ(root)
C10_TerminatesOneCallEach == <>Finished /\ []OneCallEach
C10_Witness ==
  /\ Returned /\ InList(root) /\ Len(heap[root.id].items) = 2
  /\ heap[root.id].items[1] = heap[root.id].items[2]
  /\ InNode(heap[root.id].items[1])
  /\ ncalls > 2

====
